---- MODULE Spec2Model ----
(***************************************************************************)
(* Declaration lifecycle of the ICA backend (FastAPI + SQLAlchemy on       *)
(* PostgreSQL): create, update, calculate, sign, correct and generate-pdf  *)
(* requests running in concurrent database sessions, the per-municipality  *)
(* radicado counter and the unique index on filing_number.                 *)
(*                                                                         *)
(* A request is a sequence of steps of one session.  A step is one SELECT  *)
(* (a query or a lazy load of a relationship) or the final flush + COMMIT, *)
(* which PostgreSQL applies atomically.  Sessions are created with         *)
(* autoflush=False, so all writes of a request reach the database at its   *)
(* commit.  Amounts are integers; the inputs offered to update() are       *)
(* chosen so that income * rate / 1000 is exact.                           *)
(***************************************************************************)
EXTENDS Integers, Sequences, FiniteSets, TLC, Bags

(* ------------------------------ bounds -------------------------------- *)
NumSessions == 2
MaxDecls == 3
MaxAudit == 4
MaxTime == 2
MaxAmount == 1

(* --------------------------- seeded data ------------------------------ *)
NoId == 0
NoTime == 0
NoString == "NULL"
NoHash == <<>>
NoRate == -1

DeclIds == 1..MaxDecls

\* Two users: a declarante without assigned municipality and a municipal
\* administrator assigned to municipality 1.
Users == {1, 2}
UserRole(u) == IF u = 1 THEN "declarante" ELSE "admin_alcaldia"
UserMunicipality(u) == IF u = 1 THEN NoId ELSE 1

\* Municipalities 1 and 2 have a white-label configuration, 3 has none.
\* Municipality 1 keeps the column defaults; the administrator of
\* municipality 2 has set the prefix "RAD-" and six digits.
Municipalities == {1, 2, 3}
MunicipalityInputs == {1, 3, 4}
ReferredIds == {1, 2}
ConfiguredMunicipalities == {1, 2}
HasConfig(m) == m \in ConfiguredMunicipalities

DefaultRadicadoPrefijo == ""
DefaultRadicadoActual == 1
DefaultRadicadoDigitos == 16

SeedConfig(m) ==
    IF m = 1
    THEN [radicado_prefijo |-> DefaultRadicadoPrefijo,
          radicado_actual |-> DefaultRadicadoActual,
          radicado_digitos |-> DefaultRadicadoDigitos]
    ELSE [radicado_prefijo |-> "RAD-",
          radicado_actual |-> DefaultRadicadoActual,
          radicado_digitos |-> 6]

DeclarationType == {"inicial", "correccion", "correccion_disminuye", "correccion_aumenta"}
\* The handlers never branch on declaration_type; create() is offered these.
DeclarationTypeInputs == {"inicial", "correccion"}

CreateRequest(u, m, dtype, corr) ==
    [user |-> u, municipality_id |-> m, declaration_type |-> dtype,
     correction_of_id |-> corr]

\* Bodies offered to create().  Plain ones: an initial declaration by the
\* declarante in a configured municipality, in one without configuration
\* and in one that does not exist.
PlainCreates ==
    {CreateRequest(1, m, "inicial", NoId) : m \in MunicipalityInputs}

\* Initial declarations in the two configured municipalities.
RadicadoCreates == {CreateRequest(1, m, "inicial", NoId) : m \in ConfiguredMunicipalities}

\* Every combination of declaration_type and correction_of_id.
ReferringCreates ==
    {CreateRequest(1, 1, dtype, corr) :
        dtype \in DeclarationTypeInputs, corr \in {NoId} \cup ReferredIds}

\* Initial declarations of municipality 1 by either user.
EditCreates == {CreateRequest(u, 1, "inicial", NoId) : u \in Users}

ChildKinds == {"taxpayer", "income_base", "energy_generation", "settlement",
               "payment_section", "discounts", "result"}

\* Columns mapped on ICADeclaration.  An attribute that is not a mapped
\* column is not loaded from, nor written to, the database.
ICADeclarationColumns == {"id", "tax_year", "filing_date", "declaration_type",
    "form_number", "filing_number", "status", "user_id", "municipality_id",
    "correction_of_id", "is_signed", "signature_data", "signed_at",
    "signed_by_user_id", "integrity_hash", "pdf_path", "pdf_generated_at",
    "created_at", "updated_at"}

(* ------------------------------ state --------------------------------- *)
VARIABLES
    decls,      \* ica_declarations: id -> row
    children,   \* child records of each declaration
    configs,    \* white_label_configs of the configured municipalities
    sigInfos,   \* signature_info rows
    audit,      \* audit_logs rows, as a bag
    now,        \* the civil clock
    sess,       \* the requests under way, one per database session, as a bag
    resp,       \* the response being sent, if any
    signOk      \* per declaration: sign() requests answered with success

vars == <<decls, children, configs, sigInfos, audit, now, sess, resp, signOk>>

(* --------------------------- pure helpers ----------------------------- *)
Digit(d) ==
    CASE d = 0 -> "0" [] d = 1 -> "1" [] d = 2 -> "2" [] d = 3 -> "3"
      [] d = 4 -> "4" [] d = 5 -> "5" [] d = 6 -> "6" [] d = 7 -> "7"
      [] d = 8 -> "8" [] OTHER -> "9"

RECURSIVE Str(_)
Str(n) == IF n < 10 THEN Digit(n) ELSE Str(n \div 10) \o Digit(n % 10)

\* str.zfill that pads nothing.
zfillNoPadding(s, width) == s

RECURSIVE zfill(_, _)
zfill(s, width) == IF Len(s) >= width THEN s ELSE zfill("0" \o s, width)

\* Python's `x or default` on an integer column.
OrInt(x, default) == IF x = 0 THEN default ELSE x

FormatRadicado(prefijo, numero, digitos) == prefijo \o zfill(Str(numero), digitos)

\* The fallback number without the declaration id.
FallbackRadicadoWithoutId(id, t) == "RAD-" \o Str(t)

FallbackRadicado(id, t) == "RAD-" \o Str(id) \o "-" \o Str(t)

\* The content string hashed at signing; SHA-256 is taken to be injective
\* on it, so the digest is represented by the content itself.
generate_integrity_hash(id, form_number, user, t) == <<id, form_number, user, t>>

\* uuid4-based form number: fresh for every call; represented by the id of
\* the row it is generated for, which no other row shares.
generate_form_number(id) == id

\* The columns of income_bases at their defaults: renglones 8 to 14 of the
\* form, then the legacy columns the engine reads.
EmptyIncomeBase ==
    [row_8_total_income_country |-> 0, row_9_income_outside_municipality |-> 0,
     row_11_returns_rebates_discounts |-> 0, row_12_exports_fixed_assets |-> 0,
     row_13_excluded_non_taxable |-> 0, row_14_exempt_income |-> 0,
     row_8_ordinary_income |-> 0, row_9_extraordinary_income |-> 0,
     row_11_returns |-> 0, row_12_exports |-> 0, row_13_fixed_assets_sales |-> 0,
     row_14_excluded_income |-> 0, row_15_non_taxable_income |-> 0]

\* The columns of tax_settlements at their defaults: renglones 21 to 32 of
\* the form, then the legacy columns the engine reads and writes.
EmptySettlement ==
    [row_21_signs_boards |-> 0, row_22_financial_additional_units |-> 0,
     row_23_bomberil_surcharge |-> 0, row_24_security_surcharge |-> 0,
     row_26_exemptions |-> 0, row_27_withholdings_municipality |-> 0,
     row_28_self_withholdings |-> 0, row_29_previous_advance |-> 0,
     row_30_next_year_advance |-> 0, row_31_penalties |-> 0,
     row_32_previous_balance_favor |-> 0,
     row_30_ica_tax |-> 0, row_31_signs_boards |-> 0, row_32_surcharge |-> 0]

\* The columns of energy_generations and of payment_sections at their
\* defaults.
EmptyEnergyGeneration == [installed_capacity_kw |-> 0, law_56_tax |-> 0]

EmptyPaymentSection ==
    [row_35_amount_to_pay |-> 0, row_36_early_payment_discount |-> 0,
     row_37_late_interest |-> 0, row_39_voluntary_payment |-> 0]

EmptyChildren ==
    [kinds |-> {},
     income_base |-> EmptyIncomeBase,
     activities |-> <<>>,
     energy_generation |-> EmptyEnergyGeneration,
     payment_section |-> EmptyPaymentSection,
     settlement |-> EmptySettlement,
     discounts |-> [tax_discounts |-> 0, advance_payments |-> 0, withholdings |-> 0],
     result |-> [amount_to_pay |-> 0, balance_in_favor |-> 0]]

NoPayload == [sections |-> {}, activities |-> <<>>,
              income_base |-> EmptyChildren.income_base,
              energy_generation |-> EmptyChildren.energy_generation,
              payment_section |-> EmptyChildren.payment_section,
              settlement |-> EmptyChildren.settlement,
              discounts |-> EmptyChildren.discounts]

\* A request under way: its position, its arguments and what it has read.
NewRequest ==
    [pc |-> "start", op |-> "none", user |-> NoId, target |-> NoId,
     t |-> NoTime, hash |-> NoHash, numero |-> 0, filing |-> NoString,
     sawSig |-> NoId, payload |-> NoPayload]

NoData == <<>>

\* What an operation hands back: its outcome and, in data, the rows it
\* derived (the CalculationResponse of calculate, the declaration_data that
\* generate_pdf renders, the serialized income_base of get_declaration).
NoResponse ==
    [op |-> "none", user |-> NoId, target |-> NoId, outcome |-> "none",
     filing |-> NoString, data |-> NoData]

Response(op, u, d, outcome, filing) ==
    [op |-> op, user |-> u, target |-> d, outcome |-> outcome, filing |-> filing,
     data |-> NoData]

ResponseWithData(op, u, d, data) ==
    [op |-> op, user |-> u, target |-> d, outcome |-> "Success", filing |-> NoString,
     data |-> data]

AuditRow(action, d, u) == [action |-> action, declaration_id |-> d, user_id |-> u]
AddAudit(action, d, u) == audit (+) SetToBag({AuditRow(action, d, u)})

NewId == Cardinality(DOMAIN decls) + 1

InFlight == BagCardinality(sess)

Start(q) == sess (+) SetToBag({q})
Finish(q) == sess (-) SetToBag({q})
Advance(q, q2) == Finish(q) (+) SetToBag({q2})

\* A response is handed to the client before the server takes another step.
Quiet == resp = NoResponse

Running(q, pc) == Quiet /\ BagIn(q, sess) /\ q.pc = pc

\* A request starts while the pool has a free session.
CanStart == Quiet /\ InFlight < NumSessions

\* A request that will write an audit row goes ahead only while the log has
\* room for it and for those of the requests already running.
HasRoom == BagCardinality(audit) + InFlight < MaxAudit

RECURSIVE SumOver(_, _)
SumOver(f, S) == IF S = {} THEN 0
                 ELSE LET x == CHOOSE y \in S : TRUE IN f[x] + SumOver(f, S \ {x})

(* ------------------------------- Init --------------------------------- *)
Init ==
    /\ decls = <<>>
    /\ children = <<>>
    /\ configs = [m \in ConfiguredMunicipalities |-> SeedConfig(m)]
    /\ sigInfos = {}
    /\ audit = EmptyBag
    /\ now = 1
    /\ sess = EmptyBag
    /\ resp = NoResponse
    /\ signOk = [d \in DeclIds |-> 0]

(* ------------------------------ create -------------------------------- *)
NewDeclaration(dtype, u, municipality_id, form_number, corr) ==
    [declaration_type |-> dtype,
     user_id |-> u,
     municipality_id |-> municipality_id,
     form_number |-> form_number,
     correction_of_id |-> corr,
     status |-> "borrador",
     is_signed |-> FALSE,
     filing_number |-> NoString,
     signed_at |-> NoTime,
     signed_by_user_id |-> NoId,
     integrity_hash |-> NoHash,
     has_been_corrected |-> FALSE,
     pdf_path |-> NoString]

\* The municipality create_declaration uses: the user's own when assigned.
CreateMunicipality(data) ==
    IF UserMunicipality(data.user) # NoId THEN UserMunicipality(data.user)
    ELSE data.municipality_id

\* What stops create_declaration before its first commit: an unknown
\* municipality, or the foreign key ica_declarations.correction_of_id, which
\* is checked once the row is inserted and so accepts the row's own id.
CreateGuard(data) ==
    IF CreateMunicipality(data) \notin Municipalities THEN "NotFound"
    ELSE IF data.correction_of_id \notin {NoId, NewId} \cup DOMAIN decls
    THEN "InternalError"
    ELSE "ok"

\* create_declaration up to its first commit: the declaration row alone.
CreateBegin(data) ==
    /\ CanStart
    /\ IF CreateGuard(data) # "ok"
       THEN /\ resp' = Response("create", data.user, NoId, CreateGuard(data), NoString)
            /\ UNCHANGED <<decls, children, sess>>
       ELSE /\ HasRoom
            /\ NewId <= MaxDecls
            /\ decls' = decls @@ (NewId :>
                  NewDeclaration(data.declaration_type, data.user,
                                 CreateMunicipality(data),
                                 generate_form_number(NewId), data.correction_of_id))
            /\ children' = children @@ (NewId :> EmptyChildren)
            /\ sess' = Start(
                  [NewRequest EXCEPT !.pc = "create_children", !.op = "create",
                                      !.user = data.user, !.target = NewId])
            /\ UNCHANGED resp
    /\ UNCHANGED <<configs, sigInfos, audit, now, signOk>>

\* create_declaration after the first commit: the empty child records and
\* the audit entry, committed together.
CreateFinish(q) ==
    /\ Running(q, "create_children")
    /\ LET d == q.target
       IN  /\ children' = [children EXCEPT ![d].kinds =
                  @ \cup {"taxpayer", "income_base", "settlement", "discounts", "result"}]
           /\ audit' = AddAudit("CREATE", d, q.user)
           /\ resp' = Response("create", q.user, d, "Success", NoString)
           /\ sess' = Finish(q)
    /\ UNCHANGED <<decls, configs, sigInfos, now, signOk>>

\* create_declaration when its second commit raises (the database refuses
\* or is lost): nothing catches the error, the session is closed and the
\* answer is 500; the declaration of the first commit stays.
CreateFail(q) ==
    /\ Running(q, "create_children")
    /\ resp' = Response("create", q.user, q.target, "InternalError", NoString)
    /\ sess' = Finish(q)
    /\ UNCHANGED <<decls, children, configs, sigInfos, audit, now, signOk>>

(* ------------------------------ update -------------------------------- *)
Activity1 == [income |-> 1000, tax_rate |-> 5, special_rate |-> NoRate]

\* The TaxableActivity rows update_declaration builds from the activities
\* given: ciiu_code, description, income and tax_rate are passed on,
\* special_rate is not and stays NULL.
StoredActivities(activities) ==
    [i \in 1..Len(activities) |->
        [income |-> activities[i].income, tax_rate |-> activities[i].tax_rate,
         special_rate |-> NoRate]]

\* The request bodies offered to update(): one section each.
UpdatePayloads ==
    { [NoPayload EXCEPT !.sections = {"activities"}, !.activities = <<Activity1>>],
      [NoPayload EXCEPT !.sections = {"discounts"},
                        !.discounts = [tax_discounts |-> 0, advance_payments |-> 7,
                                       withholdings |-> 0]] }

\* The section loop of update_declaration: activities are replaced whenever
\* given; a one-to-one section is written only if its child record exists.
ApplyUpdate(c, p) ==
    [c EXCEPT
       !.income_base = IF "income_base" \in p.sections /\ "income_base" \in c.kinds
                       THEN p.income_base ELSE @,
       !.activities = IF "activities" \in p.sections
                      THEN StoredActivities(p.activities) ELSE @,
       !.energy_generation = IF "energy_generation" \in p.sections
                                /\ "energy_generation" \in c.kinds
                             THEN p.energy_generation ELSE @,
       !.settlement = IF "settlement" \in p.sections /\ "settlement" \in c.kinds
                      THEN p.settlement ELSE @,
       !.payment_section = IF "payment_section" \in p.sections
                              /\ "payment_section" \in c.kinds
                           THEN p.payment_section ELSE @,
       !.discounts = IF "discounts" \in p.sections /\ "discounts" \in c.kinds
                     THEN p.discounts ELSE @]

\* update_declaration with the ownership check moved before the is_signed
\* check.
UpdateGuardOwnerFirst(u, d) ==
    IF d \notin DOMAIN decls THEN "NotFound"
    ELSE IF UserRole(u) = "declarante" /\ decls[d].user_id # u THEN "Forbidden"
    ELSE IF decls[d].is_signed THEN "InvalidState"
    ELSE "ok"

\* The guards of update_declaration, in their order.
UpdateGuard(u, d) ==
    IF d \notin DOMAIN decls THEN "NotFound"
    ELSE IF decls[d].is_signed THEN "InvalidState"
    ELSE IF UserRole(u) = "declarante" /\ decls[d].user_id # u THEN "Forbidden"
    ELSE "ok"

\* update_declaration: the query and the guards.
UpdateBegin(u, d, p) ==
    /\ CanStart
    /\ IF UpdateGuard(u, d) # "ok"
       THEN /\ resp' = Response("update", u, d, UpdateGuard(u, d), NoString)
            /\ UNCHANGED sess
       ELSE /\ HasRoom
            /\ sess' = Start(
                  [NewRequest EXCEPT !.pc = "update_commit", !.op = "update",
                                      !.user = u, !.target = d, !.payload = p])
            /\ UNCHANGED resp
    /\ UNCHANGED <<decls, children, configs, sigInfos, audit, now, signOk>>

\* update_declaration: the sections, the audit entry and the commit.
UpdateCommit(q) ==
    /\ Running(q, "update_commit")
    /\ LET d == q.target
       IN  /\ children' = [children EXCEPT ![d] = ApplyUpdate(@, q.payload)]
           /\ audit' = AddAudit("UPDATE", d, q.user)
           /\ resp' = Response("update", q.user, d, "Success", NoString)
           /\ sess' = Finish(q)
    /\ UNCHANGED <<decls, configs, sigInfos, now, signOk>>

(* ----------------------------- calculate ------------------------------- *)
Max(x, y) == IF x >= y THEN x ELSE y

\* Renglon 10 of the engine: R8 + R9 of the legacy columns.
calculate_total_income(data) ==
    data.row_8_ordinary_income + data.row_9_extraordinary_income

\* Renglon 16 of the engine: R10 less R11 to R15, never below zero.
calculate_taxable_income(data) ==
    LET total_income == calculate_total_income(data)
        deductions == data.row_11_returns + data.row_12_exports
                      + data.row_13_fixed_assets_sales + data.row_14_excluded_income
                      + data.row_15_non_taxable_income
    IN  Max(0, total_income - deductions)

calculate_activity_tax(activity) == (activity.income * activity.tax_rate) \div 1000

RECURSIVE calculate_total_activities_tax(_)
calculate_total_activities_tax(activities) ==
    IF activities = <<>> THEN 0
    ELSE calculate_activity_tax(Head(activities))
         + calculate_total_activities_tax(Tail(activities))

\* calculate_total_tax adding the row_30_ica_tax an earlier call stored.
calculate_total_tax_accumulating(ica_tax, settlement) ==
    ica_tax + settlement.row_30_ica_tax + settlement.row_31_signs_boards
    + settlement.row_32_surcharge

calculate_total_tax(ica_tax, settlement) ==
    ica_tax + settlement.row_31_signs_boards + settlement.row_32_surcharge

calculate_total_credits(credits) ==
    credits.tax_discounts + credits.advance_payments + credits.withholdings

Abs(x) == IF x < 0 THEN -x ELSE x

\* calculate_final_result without the branch on the sign of the result.
calculate_final_result_unbranched(total_tax, total_credits) ==
    [amount_to_pay |-> total_tax - total_credits,
     balance_in_favor |-> Abs(total_tax - total_credits)]

calculate_final_result(total_tax, total_credits) ==
    LET result == total_tax - total_credits
    IN  IF result > 0
        THEN [amount_to_pay |-> result, balance_in_favor |-> 0]
        ELSE [amount_to_pay |-> 0, balance_in_favor |-> Abs(result)]

\* The engine on the rows calculate_declaration hands to it: a missing
\* income_base, settlement or discounts record counts as zeros.
calculate_full_declaration(c) ==
    LET income_data == IF "income_base" \in c.kinds THEN c.income_base
                       ELSE EmptyChildren.income_base
        settlement == IF "settlement" \in c.kinds THEN c.settlement
                      ELSE EmptyChildren.settlement
        credits == IF "discounts" \in c.kinds THEN c.discounts
                   ELSE EmptyChildren.discounts
        row_10 == calculate_total_income(income_data)
        row_16 == calculate_taxable_income(income_data)
        row_30 == calculate_total_activities_tax(c.activities)
        row_33 == calculate_total_tax(row_30, settlement)
        total_credits == calculate_total_credits(credits)
        final == calculate_final_result(row_33, total_credits)
    IN  [row_10_total_income |-> row_10, row_16_taxable_income |-> row_16,
         total_activities_tax |-> row_30,
         row_30_ica_tax |-> row_30, row_33_total_tax |-> row_33,
         total_credits |-> total_credits,
         amount_to_pay |-> final.amount_to_pay,
         balance_in_favor |-> final.balance_in_favor]

\* The body calculate_declaration answers with.
CalculationResponse(result) ==
    [row_10_total_income |-> result.row_10_total_income,
     row_16_taxable_income |-> result.row_16_taxable_income,
     total_activities_tax |-> result.total_activities_tax,
     row_33_total_tax |-> result.row_33_total_tax,
     total_credits |-> result.total_credits,
     amount_to_pay |-> result.amount_to_pay,
     balance_in_favor |-> result.balance_in_favor]

\* calculate_declaration: no guard on is_signed nor on the caller; the
\* derived rows are stored in the settlement and result records.
Calculate(u, d) ==
    /\ CanStart
    /\ IF d \notin DOMAIN decls
       THEN /\ resp' = Response("calculate", u, d, "NotFound", NoString)
            /\ UNCHANGED children
       ELSE LET c == children[d]
                result == calculate_full_declaration(c)
            IN  /\ children' = [children EXCEPT
                      ![d].settlement.row_30_ica_tax =
                          IF "settlement" \in c.kinds THEN result.row_30_ica_tax ELSE @,
                      ![d].result =
                          IF "result" \in c.kinds
                          THEN [amount_to_pay |-> result.amount_to_pay,
                                balance_in_favor |-> result.balance_in_favor]
                          ELSE @]
                /\ resp' = ResponseWithData("calculate", u, d, CalculationResponse(result))
    /\ UNCHANGED <<decls, configs, sigInfos, audit, now, sess, signOk>>

(* -------------------------------- sign --------------------------------- *)
\* sign_declaration with the ownership check moved before the is_signed check.
SignGuardOwnerFirst(u, d) ==
    IF d \notin DOMAIN decls THEN "NotFound"
    ELSE IF decls[d].user_id # u THEN "Forbidden"
    ELSE IF decls[d].is_signed THEN "AlreadySigned"
    ELSE "ok"

\* sign_declaration with the ownership check applied to declarantes only,
\* as update_declaration does.
SignGuardDeclaranteOnly(u, d) ==
    IF d \notin DOMAIN decls THEN "NotFound"
    ELSE IF decls[d].is_signed THEN "AlreadySigned"
    ELSE IF UserRole(u) = "declarante" /\ decls[d].user_id # u THEN "Forbidden"
    ELSE "ok"

\* The guards of sign_declaration, in their order.
SignGuard(u, d) ==
    IF d \notin DOMAIN decls THEN "NotFound"
    ELSE IF decls[d].is_signed THEN "AlreadySigned"
    ELSE IF decls[d].user_id # u THEN "Forbidden"
    ELSE "ok"

\* sign_declaration: the query, the guards, the timestamp and the hash.
SignLoad(u, d) ==
    /\ CanStart
    /\ IF SignGuard(u, d) # "ok"
       THEN /\ resp' = Response("sign", u, d, SignGuard(u, d), NoString)
            /\ UNCHANGED sess
       ELSE /\ HasRoom
            /\ sess' = Start(
                  [NewRequest EXCEPT !.pc = "sign_counter", !.op = "sign",
                      !.user = u, !.target = d, !.t = now,
                      !.hash = generate_integrity_hash(d, decls[d].form_number, u, now)])
            /\ UNCHANGED resp
    /\ UNCHANGED <<decls, children, configs, sigInfos, audit, now, signOk>>

\* sign_declaration: the lazy load of municipality.config and the number
\* formatted from the counter value it holds at that moment.
SignReadCounter(q) ==
    /\ Running(q, "sign_counter")
    /\ LET d == q.target
           m == decls[d].municipality_id
       IN  IF HasConfig(m)
           THEN LET config == configs[m]
                    prefijo == config.radicado_prefijo
                    numero == OrInt(config.radicado_actual, 1)
                    digitos == OrInt(config.radicado_digitos, 16)
                IN  sess' = Advance(q, [q EXCEPT !.pc = "sign_siginfo",
                                     !.numero = numero,
                                     !.filing = FormatRadicado(prefijo, numero, digitos)])
           ELSE sess' = Advance(q, [q EXCEPT !.pc = "sign_siginfo",
                                             !.filing = FallbackRadicado(d, q.t)])
    /\ UNCHANGED <<decls, children, configs, sigInfos, audit, now, resp, signOk>>

\* sign_declaration: the lazy load of declaration.signature_info.
SignReadSigInfo(q) ==
    /\ Running(q, "sign_siginfo")
    /\ LET rows == {r \in sigInfos : r.declaration_id = q.target}
       IN  IF rows = {}
           THEN sess' = Advance(q, [q EXCEPT !.pc = "sign_commit"])
           ELSE \E r \in rows :
                  sess' = Advance(q, [q EXCEPT !.pc = "sign_commit", !.sawSig = r.id])
    /\ UNCHANGED <<decls, children, configs, sigInfos, audit, now, resp, signOk>>

\* sign_declaration without the assignment of filing_number.
SignedRowWithoutFilingNumber(row, u, t, filing_number, integrity_hash) ==
    [row EXCEPT !.is_signed = TRUE,
                !.signed_at = t,
                !.signed_by_user_id = u,
                !.integrity_hash = integrity_hash,
                !.status = "firmado"]

\* The columns sign_declaration sets on the declaration.
SignedRow(row, u, t, filing_number, integrity_hash) ==
    [row EXCEPT !.is_signed = TRUE,
                !.signed_at = t,
                !.filing_number = filing_number,
                !.signed_by_user_id = u,
                !.integrity_hash = integrity_hash,
                !.status = "firmado"]

\* No unique index on filing_number.
FilingNumberNeverTaken(d, filing_number) == FALSE

\* The unique index on ica_declarations.filing_number.
FilingNumberTaken(d, filing_number) ==
    \E e \in DOMAIN decls \ {d} : decls[e].filing_number = filing_number

\* sign_declaration: flush and commit.  When the unique index rejects the
\* number, everything is rolled back and the answer is 500.
SignCommit(q) ==
    /\ Running(q, "sign_commit")
    /\ LET d == q.target
           u == q.user
           m == decls[d].municipality_id
           filing_number == q.filing
       IN  IF FilingNumberTaken(d, filing_number)
           THEN /\ resp' = Response("sign", u, d, "InternalError", NoString)
                /\ UNCHANGED <<decls, configs, sigInfos, audit, signOk>>
           ELSE /\ decls' = [decls EXCEPT ![d] =
                      SignedRow(@, u, q.t, filing_number, q.hash)]
                /\ configs' = IF q.numero # 0
                              THEN [configs EXCEPT ![m].radicado_actual = q.numero + 1]
                              ELSE configs
                /\ sigInfos' = {r \in sigInfos : r.id # q.sawSig} \cup
                      {[id |-> SumOver(signOk, DeclIds) + 1, declaration_id |-> d,
                        document_hash |-> q.hash, signed_at |-> q.t]}
                /\ audit' = AddAudit("SIGN", d, u)
                /\ signOk' = [signOk EXCEPT ![d] = @ + 1]
                /\ resp' = Response("sign", u, d, "Success", filing_number)
    /\ sess' = Finish(q)
    /\ UNCHANGED <<children, now>>

\* sign_declaration when its commit raises for any other reason: the
\* handler rolls back and answers 500.
SignFail(q) ==
    /\ Running(q, "sign_commit")
    /\ resp' = Response("sign", q.user, q.target, "InternalError", NoString)
    /\ sess' = Finish(q)
    /\ UNCHANGED <<decls, children, configs, sigInfos, audit, now, signOk>>

(* ------------------------------ correct -------------------------------- *)
\* The children create_correction_declaration copies: energy_generation and
\* payment_section are not among them.
CopiedKinds == {"taxpayer", "income_base", "settlement", "discounts", "result"}

CopyChildren(c) == [c EXCEPT !.kinds = @ \cap CopiedKinds]

\* The guards of create_correction_declaration, in their order.  The flag
\* has_been_corrected is read from the loaded ICADeclaration instance: an
\* attribute that is not a mapped column does not exist on it, the read
\* raises AttributeError and the framework answers 500.
CorrectGuard(u, d) ==
    IF d \notin DOMAIN decls THEN "NotFound"
    ELSE IF decls[d].user_id # u THEN "Forbidden"
    ELSE IF ~decls[d].is_signed THEN "NotSigned"
    ELSE IF "has_been_corrected" \notin ICADeclarationColumns THEN "InternalError"
    ELSE IF decls[d].has_been_corrected THEN "AlreadyCorrected"
    ELSE IF decls[d].correction_of_id # NoId THEN "CannotCorrectACorrection"
    ELSE "ok"

\* create_correction_declaration: the guards, the new declaration, the copy
\* of the child records, the flag on the original, the audit entry.
Correct(u, d) ==
    /\ CanStart
    /\ IF CorrectGuard(u, d) # "ok"
       THEN /\ resp' = Response("correct", u, d, CorrectGuard(u, d), NoString)
            /\ UNCHANGED <<decls, children, audit>>
       ELSE /\ HasRoom
            /\ NewId <= MaxDecls
            /\ decls' = [decls EXCEPT ![d].has_been_corrected = TRUE] @@ (NewId :>
                  NewDeclaration("correccion", u, decls[d].municipality_id,
                                 generate_form_number(NewId), d))
            /\ children' = children @@ (NewId :> CopyChildren(children[d]))
            /\ audit' = AddAudit("CORRECTION_CREATED", d, u)
            /\ resp' = Response("correct", u, d, "Success", NoString)
    /\ UNCHANGED <<configs, sigInfos, now, sess, signOk>>

(* ------------------------------- read --------------------------------- *)
\* IncomeBase.row_10_total_income_municipality: R8 - R9.
row_10_total_income_municipality(ib) ==
    ib.row_8_total_income_country - ib.row_9_income_outside_municipality

\* IncomeBase.row_15_taxable_income: R10 less R11 to R14, never below zero.
row_15_taxable_income(ib) ==
    LET deductions == ib.row_11_returns_rebates_discounts + ib.row_12_exports_fixed_assets
                      + ib.row_13_excluded_non_taxable + ib.row_14_exempt_income
    IN  Max(0, row_10_total_income_municipality(ib) - deductions)

\* TaxableActivity.generated_tax: the special rate when it is truthy,
\* neither NULL nor 0, else the standard rate; per thousand.
generated_tax(activity) ==
    LET rate == IF activity.special_rate # NoRate /\ activity.special_rate # 0
                THEN activity.special_rate ELSE activity.tax_rate
    IN  (activity.income * rate) \div 1000

\* TaxableActivityResponse: the columns and the computed property.
TaxableActivityResponse(activity) ==
    [income |-> activity.income, tax_rate |-> activity.tax_rate,
     special_rate |-> activity.special_rate,
     generated_tax |-> generated_tax(activity)]

\* IncomeBaseResponse: the columns and the computed properties.
IncomeBaseResponse(ib) ==
    [row_8_total_income_country |-> ib.row_8_total_income_country,
     row_9_income_outside_municipality |-> ib.row_9_income_outside_municipality,
     row_11_returns_rebates_discounts |-> ib.row_11_returns_rebates_discounts,
     row_12_exports_fixed_assets |-> ib.row_12_exports_fixed_assets,
     row_13_excluded_non_taxable |-> ib.row_13_excluded_non_taxable,
     row_14_exempt_income |-> ib.row_14_exempt_income,
     row_10_total_income_municipality |-> row_10_total_income_municipality(ib),
     row_15_taxable_income |-> row_15_taxable_income(ib)]

\* The guards of get_declaration, in their order.
GetGuard(u, d) ==
    IF d \notin DOMAIN decls THEN "NotFound"
    ELSE IF UserRole(u) = "declarante" /\ decls[d].user_id # u THEN "Forbidden"
    ELSE IF UserRole(u) = "admin_alcaldia"
            /\ decls[d].municipality_id # UserMunicipality(u) THEN "Forbidden"
    ELSE "ok"

\* get_declaration: the declaration serialized with its income_base.
GetDeclaration(u, d) ==
    /\ CanStart
    /\ resp' = IF GetGuard(u, d) # "ok"
               THEN Response("get", u, d, GetGuard(u, d), NoString)
               ELSE ResponseWithData("get", u, d,
                        [income_base |->
                            IF "income_base" \in children[d].kinds
                            THEN IncomeBaseResponse(children[d].income_base)
                            ELSE NoData,
                         activities |->
                            [i \in 1..Len(children[d].activities) |->
                                TaxableActivityResponse(children[d].activities[i])]])
    /\ UNCHANGED <<decls, children, configs, sigInfos, audit, now, sess, signOk>>

(* ---------------------------- generate-pdf ----------------------------- *)
\* Renglones 8 to 15 as generate_pdf derives them for the document.
pdf_income_base(ib) ==
    LET row_10 == ib.row_8_total_income_country - ib.row_9_income_outside_municipality
        row_15 == row_10 - (ib.row_11_returns_rebates_discounts
                            + ib.row_12_exports_fixed_assets
                            + ib.row_13_excluded_non_taxable
                            + ib.row_14_exempt_income)
    IN  [row_8 |-> ib.row_8_total_income_country,
         row_9 |-> ib.row_9_income_outside_municipality,
         row_10 |-> row_10,
         row_11 |-> ib.row_11_returns_rebates_discounts,
         row_12 |-> ib.row_12_exports_fixed_assets,
         row_13 |-> ib.row_13_excluded_non_taxable,
         row_14 |-> ib.row_14_exempt_income,
         row_15 |-> row_15]

\* Renglon 17: the activities' tax, the rate taken as a percentage.
RECURSIVE pdf_total_activities_tax(_)
pdf_total_activities_tax(activities) ==
    IF activities = <<>> THEN 0
    ELSE (Head(activities).income * Head(activities).tax_rate) \div 100
         + pdf_total_activities_tax(Tail(activities))

\* Renglones 20 to 34 as generate_pdf derives them; without a settlement
\* record the activities' tax is the amount to pay.
pdf_settlement(has_settlement, s, total_activities_tax, row_19) ==
    IF has_settlement
    THEN LET row_20 == total_activities_tax + row_19
             row_25 == row_20 + s.row_21_signs_boards
                       + s.row_22_financial_additional_units
                       + s.row_23_bomberil_surcharge + s.row_24_security_surcharge
             balance == row_25 - s.row_26_exemptions
                        - s.row_27_withholdings_municipality
                        - s.row_28_self_withholdings - s.row_29_previous_advance
                        + s.row_30_next_year_advance + s.row_31_penalties
                        - s.row_32_previous_balance_favor
         IN  [row_20 |-> row_20, row_25 |-> row_25,
              row_26 |-> s.row_26_exemptions,
              row_27 |-> s.row_27_withholdings_municipality,
              row_28 |-> s.row_28_self_withholdings,
              row_29 |-> s.row_29_previous_advance,
              row_30 |-> s.row_30_next_year_advance,
              row_31 |-> s.row_31_penalties,
              row_32 |-> s.row_32_previous_balance_favor,
              row_33 |-> IF balance > 0 THEN balance ELSE 0,
              row_34 |-> IF balance < 0 THEN Abs(balance) ELSE 0]
    ELSE [row_20 |-> total_activities_tax, row_25 |-> total_activities_tax,
          row_26 |-> 0, row_27 |-> 0, row_28 |-> 0, row_29 |-> 0,
          row_30 |-> 0, row_31 |-> 0, row_32 |-> 0,
          row_33 |-> total_activities_tax, row_34 |-> 0]

\* The declaration_data generate_pdf hands to the renderer; renglon 19 is 0
\* without an energy_generation record.
declaration_data(c) ==
    LET row_19 == IF "energy_generation" \in c.kinds
                  THEN c.energy_generation.law_56_tax ELSE 0
        settlement == pdf_settlement("settlement" \in c.kinds, c.settlement,
                                     pdf_total_activities_tax(c.activities), row_19)
    IN  [income_base |-> IF "income_base" \in c.kinds
                         THEN pdf_income_base(c.income_base) ELSE NoData,
         row_17 |-> pdf_total_activities_tax(c.activities),
         settlement |-> settlement,
         result |-> [amount_to_pay |-> settlement.row_33,
                     balance_in_favor |-> settlement.row_34]]

\* generate_pdf: renders the derived rows, stores the path of the rendered
\* file and an audit entry.
GeneratePdf(u, d) ==
    /\ CanStart
    /\ IF d \notin DOMAIN decls
       THEN /\ resp' = Response("generate_pdf", u, d, "NotFound", NoString)
            /\ UNCHANGED <<decls, audit>>
       ELSE /\ HasRoom
            /\ decls' = [decls EXCEPT ![d].pdf_path = "pdf"]
            /\ audit' = AddAudit("GENERATE_PDF", d, u)
            /\ resp' = ResponseWithData("generate_pdf", u, d, declaration_data(children[d]))
    /\ UNCHANGED <<children, configs, sigInfos, now, sess, signOk>>

(* ------------------------------- clock -------------------------------- *)
Tick ==
    /\ Quiet
    /\ now < MaxTime
    /\ now' = now + 1
    /\ UNCHANGED <<decls, children, configs, sigInfos, audit, sess, resp, signOk>>

\* The response leaves the server.
Deliver ==
    /\ resp # NoResponse
    /\ resp' = NoResponse
    /\ UNCHANGED <<decls, children, configs, sigInfos, audit, now, sess, signOk>>

(* --------------------------- specifications ---------------------------- *)
\* Signing: plain declarations, sign() step by step, correct().
Next ==
    \/ \E data \in PlainCreates : CreateBegin(data)
    \/ \E q \in BagToSet(sess) : CreateFinish(q)
    \/ \E u \in Users, d \in DeclIds : SignLoad(u, d)
    \/ \E q \in BagToSet(sess) : SignReadCounter(q)
    \/ \E q \in BagToSet(sess) : SignReadSigInfo(q)
    \/ \E q \in BagToSet(sess) : SignCommit(q)
    \/ \E u \in Users, d \in DeclIds : Correct(u, d)
    \/ Tick
    \/ Deliver

Spec == Init /\ [][Next]_vars

\* Numbering: declarations of the two configured municipalities and sign().
NextRadicado ==
    \/ \E data \in RadicadoCreates : CreateBegin(data)
    \/ \E q \in BagToSet(sess) : CreateFinish(q)
    \/ \E u \in Users, d \in DeclIds : SignLoad(u, d)
    \/ \E q \in BagToSet(sess) : SignReadCounter(q)
    \/ \E q \in BagToSet(sess) : SignReadSigInfo(q)
    \/ \E q \in BagToSet(sess) : SignCommit(q)
    \/ Tick
    \/ Deliver

SpecRadicado == Init /\ [][NextRadicado]_vars

\* Corrections: create() with every declaration_type and correction_of_id,
\* sign() and correct().
NextRows ==
    \/ \E data \in ReferringCreates : CreateBegin(data)
    \/ \E q \in BagToSet(sess) : CreateFinish(q)
    \/ \E u \in Users, d \in DeclIds : SignLoad(u, d)
    \/ \E q \in BagToSet(sess) : SignReadCounter(q)
    \/ \E q \in BagToSet(sess) : SignReadSigInfo(q)
    \/ \E q \in BagToSet(sess) : SignCommit(q)
    \/ \E u \in Users, d \in DeclIds : Correct(u, d)
    \/ Tick
    \/ Deliver

SpecRows == Init /\ [][NextRows]_vars

\* The child records: every operation on initial declarations.
NextEdit ==
    \/ \E data \in EditCreates : CreateBegin(data)
    \/ \E q \in BagToSet(sess) : CreateFinish(q)
    \/ \E u \in Users, d \in DeclIds, p \in UpdatePayloads :
            UpdateBegin(u, d, p)
    \/ \E q \in BagToSet(sess) : UpdateCommit(q)
    \/ \E u \in Users, d \in DeclIds : Calculate(u, d)
    \/ \E u \in Users, d \in DeclIds : SignLoad(u, d)
    \/ \E q \in BagToSet(sess) : SignReadCounter(q)
    \/ \E q \in BagToSet(sess) : SignReadSigInfo(q)
    \/ \E q \in BagToSet(sess) : SignCommit(q)
    \/ \E u \in Users, d \in DeclIds : Correct(u, d)
    \/ \E u \in Users, d \in DeclIds : GeneratePdf(u, d)
    \/ Tick
    \/ Deliver

SpecEdit == Init /\ [][NextEdit]_vars

\* Both configured municipalities with the column defaults of
\* WhiteLabelConfig: no prefix, counter at 1, 16 digits.
InitDefaults ==
    /\ decls = <<>>
    /\ children = <<>>
    /\ configs = [m \in ConfiguredMunicipalities |-> SeedConfig(1)]
    /\ sigInfos = {}
    /\ audit = EmptyBag
    /\ now = 1
    /\ sess = EmptyBag
    /\ resp = NoResponse
    /\ signOk = [d \in DeclIds |-> 0]

\* Numbering when the municipalities share one number format.
SpecDefaults == InitDefaults /\ [][NextRadicado]_vars

\* Failures: the lifecycle operations when a commit can raise.
NextFaults ==
    \/ \E data \in PlainCreates : CreateBegin(data)
    \/ \E q \in BagToSet(sess) : CreateFinish(q)
    \/ \E q \in BagToSet(sess) : CreateFail(q)
    \/ \E u \in Users, d \in DeclIds : SignLoad(u, d)
    \/ \E q \in BagToSet(sess) : SignReadCounter(q)
    \/ \E q \in BagToSet(sess) : SignReadSigInfo(q)
    \/ \E q \in BagToSet(sess) : SignCommit(q)
    \/ \E q \in BagToSet(sess) : SignFail(q)
    \/ \E u \in Users, d \in DeclIds : Correct(u, d)
    \/ Deliver

SpecFaults == Init /\ [][NextFaults]_vars

(* ----------------------------- the amounts ---------------------------- *)
Amounts == 0..MaxAmount

\* One activity whose tax is a in the engine (rate per thousand).
ActivitiesOf(a) ==
    IF a = 0 THEN <<>>
    ELSE <<[income |-> 1000 * a, tax_rate |-> 1, special_rate |-> NoRate]>>

\* The income_base records a declarant can store through update():
\* renglones 8 to 14 of the form, or the legacy columns.
FormIncomeInputs ==
    { [EmptyIncomeBase EXCEPT
          !.row_8_total_income_country = r8,
          !.row_9_income_outside_municipality = r9,
          !.row_11_returns_rebates_discounts = r11,
          !.row_12_exports_fixed_assets = r12,
          !.row_13_excluded_non_taxable = r13,
          !.row_14_exempt_income = r14] :
      r8 \in Amounts, r9 \in Amounts, r11 \in Amounts, r12 \in Amounts,
      r13 \in Amounts, r14 \in Amounts }

LegacyIncomeInputs ==
    { [EmptyIncomeBase EXCEPT
          !.row_8_ordinary_income = r8,
          !.row_9_extraordinary_income = r9,
          !.row_11_returns = r11,
          !.row_12_exports = r12,
          !.row_13_fixed_assets_sales = r13,
          !.row_14_excluded_income = r14,
          !.row_15_non_taxable_income = r15] :
      r8 \in Amounts, r9 \in Amounts, r11 \in Amounts, r12 \in Amounts,
      r13 \in Amounts, r14 \in Amounts, r15 \in Amounts }

\* The settlement records of the form: renglones 21 to 32.
FormSettlementInputs ==
    { [EmptySettlement EXCEPT
          !.row_21_signs_boards = r21,
          !.row_22_financial_additional_units = r22,
          !.row_23_bomberil_surcharge = r23,
          !.row_24_security_surcharge = r24,
          !.row_26_exemptions = r26,
          !.row_27_withholdings_municipality = r27,
          !.row_28_self_withholdings = r28,
          !.row_29_previous_advance = r29,
          !.row_30_next_year_advance = r30,
          !.row_31_penalties = r31,
          !.row_32_previous_balance_favor = r32] :
      r21 \in Amounts, r22 \in Amounts, r23 \in Amounts, r24 \in Amounts,
      r26 \in Amounts, r27 \in Amounts, r28 \in Amounts, r29 \in Amounts,
      r30 \in Amounts, r31 \in Amounts, r32 \in Amounts }

\* The legacy settlement columns the engine adds to the activities' tax.
LegacySettlementInputs ==
    { [EmptySettlement EXCEPT !.row_31_signs_boards = r31, !.row_32_surcharge = r32] :
      r31 \in Amounts, r32 \in Amounts }

DiscountsInputs ==
    { [tax_discounts |-> t, advance_payments |-> a, withholdings |-> w] :
      t \in Amounts, a \in Amounts, w \in Amounts }

\* The child records of a declaration as create() leaves them.
CreatedChildren ==
    [EmptyChildren EXCEPT
        !.kinds = {"taxpayer", "income_base", "settlement", "discounts", "result"}]

\* The child records of a draft after update(): one section filled in.
CalcChildren ==
    { [CreatedChildren EXCEPT !.income_base = ib] :
         ib \in FormIncomeInputs \cup LegacyIncomeInputs }
    \cup { [CreatedChildren EXCEPT !.activities = ActivitiesOf(a), !.settlement = s] :
             a \in Amounts, s \in FormSettlementInputs }
    \cup { [CreatedChildren EXCEPT !.activities = ActivitiesOf(a), !.settlement = s,
                                   !.discounts = c] :
             a \in Amounts, s \in LegacySettlementInputs, c \in DiscountsInputs }

CalcOwner == 1
CalcTargets == {1, 2}

\* One draft of CalcOwner in municipality 1, its sections filled in.
InitCalc ==
    /\ decls = (1 :> NewDeclaration("inicial", CalcOwner, 1, generate_form_number(1), NoId))
    /\ children \in { (1 :> c) : c \in CalcChildren }
    /\ configs = [m \in ConfiguredMunicipalities |-> SeedConfig(m)]
    /\ sigInfos = {}
    /\ audit = EmptyBag
    /\ now = 1
    /\ sess = EmptyBag
    /\ resp = NoResponse
    /\ signOk = [d \in DeclIds |-> 0]

\* The derived rows: calculate(), generate_pdf() and get() on a filled draft.
NextCalc ==
    \/ \E d \in CalcTargets : Calculate(CalcOwner, d)
    \/ \E d \in CalcTargets : GeneratePdf(CalcOwner, d)
    \/ \E u \in Users, d \in CalcTargets : GetDeclaration(u, d)
    \/ Deliver

SpecCalc == InitCalc /\ [][NextCalc]_vars

(* ------------------------------ the rates ------------------------------ *)
\* The activities offered to update(): rates per thousand, with no special
\* rate, a special rate of 0 and a special rate below the standard one.
RateActivities ==
    { [income |-> i, tax_rate |-> 5, special_rate |-> s] :
      i \in {1000, 2000}, s \in {NoRate, 0, 2} }

RatePayloads ==
    { [NoPayload EXCEPT !.sections = {"activities"}, !.activities = <<a>>] :
         a \in RateActivities }
    \cup { [NoPayload EXCEPT !.sections = {"activities"}, !.activities = <<a, b>>] :
             a \in RateActivities, b \in RateActivities }

\* One draft of CalcOwner in municipality 1 as create() leaves it.
InitDraft ==
    /\ decls = (1 :> NewDeclaration("inicial", CalcOwner, 1, generate_form_number(1), NoId))
    /\ children = (1 :> CreatedChildren)
    /\ configs = [m \in ConfiguredMunicipalities |-> SeedConfig(m)]
    /\ sigInfos = {}
    /\ audit = EmptyBag
    /\ now = 1
    /\ sess = EmptyBag
    /\ resp = NoResponse
    /\ signOk = [d \in DeclIds |-> 0]

\* The activities: update() of the activities, then calculate(),
\* generate_pdf() and get().
NextRates ==
    \/ \E d \in CalcTargets, p \in RatePayloads : UpdateBegin(CalcOwner, d, p)
    \/ \E q \in BagToSet(sess) : UpdateCommit(q)
    \/ \E d \in CalcTargets : Calculate(CalcOwner, d)
    \/ \E d \in CalcTargets : GeneratePdf(CalcOwner, d)
    \/ \E d \in CalcTargets : GetDeclaration(CalcOwner, d)
    \/ Deliver

SpecRates == InitDraft /\ [][NextRates]_vars

(* ----------------------------- the sections --------------------------- *)
\* The one-to-one sections of ICADeclarationUpdate, each with one column
\* away from its default.
SectionPayloads ==
    { [NoPayload EXCEPT !.sections = {"income_base"},
          !.income_base = [EmptyIncomeBase EXCEPT !.row_8_total_income_country = 1]],
      [NoPayload EXCEPT !.sections = {"energy_generation"},
          !.energy_generation = [EmptyEnergyGeneration EXCEPT !.law_56_tax = 1]],
      [NoPayload EXCEPT !.sections = {"settlement"},
          !.settlement = [EmptySettlement EXCEPT !.row_21_signs_boards = 1]],
      [NoPayload EXCEPT !.sections = {"payment_section"},
          !.payment_section = [EmptyPaymentSection EXCEPT !.row_39_voluntary_payment = 1]],
      [NoPayload EXCEPT !.sections = {"discounts"},
          !.discounts = [tax_discounts |-> 1, advance_payments |-> 0,
                         withholdings |-> 0]] }

\* The sections: create() and update() of each section by the owner.
NextSections ==
    \/ CreateBegin(CreateRequest(CalcOwner, 1, "inicial", NoId))
    \/ \E q \in BagToSet(sess) : CreateFinish(q)
    \/ \E d \in DeclIds, p \in SectionPayloads : UpdateBegin(CalcOwner, d, p)
    \/ \E q \in BagToSet(sess) : UpdateCommit(q)
    \/ Deliver

SpecSections == Init /\ [][NextSections]_vars

(* ------------------------------- claims -------------------------------- *)
\* A sign() request on d that starts and is answered in the same step.
SignAnsweredAtOnce(d) ==
    /\ resp = NoResponse
    /\ resp'.op = "sign"
    /\ resp'.target = d
    /\ sess' = sess

\* C1: once sign() has succeeded on a declaration, every sign() that starts
\* afterwards, whoever the caller is, is answered AlreadySigned, and neither
\* the declaration rows (filing_number among them) nor the radicado counters
\* change.
C1_SignOnceOnly ==
    [][\A d \in DOMAIN decls :
          (decls[d].is_signed /\ signOk[d] >= 1 /\ SignAnsweredAtOnce(d))
             => /\ resp'.outcome = "AlreadySigned"
                /\ decls' = decls
                /\ configs' = configs]_vars

\* A caller who is not the owner has been answered AlreadySigned.
C1_Witness ==
    /\ resp.op = "sign"
    /\ resp.outcome = "AlreadySigned"
    /\ signOk[resp.target] >= 1
    /\ resp.user # decls[resp.target].user_id

\* Two sign() executions that have read the counter.
ReadSameCounter(q, q2) ==
    /\ q.op = "sign" /\ q2.op = "sign"
    /\ q.numero # 0 /\ q2.numero # 0
    /\ q.target # q2.target
    /\ decls[q.target].municipality_id = decls[q2.target].municipality_id
    /\ q.numero = q2.numero

\* C2: when sign() runs on two distinct draft declarations of one
\* municipality, no two signed declarations hold the same filing_number and
\* the two executions never hold the same value of the counter.
C2_DistinctCounterValues ==
    /\ \A d, e \in DOMAIN decls :
          (d # e /\ decls[d].is_signed /\ decls[e].is_signed)
             => decls[d].filing_number # decls[e].filing_number
    /\ \A q, q2 \in BagToSet(sess) : ~ReadSameCounter(q, q2)

\* C3: of the sign() executions on one declaration at most one succeeds.
C3_AtMostOneSignSucceeds == \A d \in DeclIds : signOk[d] <= 1

\* C9: a declaration has a filing_number exactly when it is signed.
C9_FilingNumberIffSigned ==
    \A d \in DOMAIN decls : (decls[d].filing_number # NoString) <=> decls[d].is_signed

\* A signed declaration with its number next to a draft without one.
C9_Witness ==
    \E d, e \in DOMAIN decls :
        /\ decls[d].is_signed /\ decls[d].filing_number # NoString
        /\ ~decls[e].is_signed /\ decls[e].filing_number = NoString

\* The declarations whose correction_of_id is o.
CorrectionsOf(o) == {c \in DOMAIN decls : decls[c].correction_of_id = o}

\* C4: at most one declaration refers to a given declaration through
\* correction_of_id.
C4_AtMostOneCorrection ==
    \A o \in DOMAIN decls : Cardinality(CorrectionsOf(o)) <= 1

\* A correct() request of the owner of d that is answered in this step.
CorrectAnswered(d) ==
    /\ resp = NoResponse
    /\ resp'.op = "correct"
    /\ resp'.target = d
    /\ resp'.user = decls[d].user_id

\* C5: has_been_corrected is persistent state of the declaration that
\* correct() reads: on a signed initial declaration the owner's correct()
\* succeeds while the flag is unset, and once it is set every later one is
\* answered AlreadyCorrected and creates no declaration.
C5_CorrectOnceOnly ==
    [][\A d \in DOMAIN decls :
          (CorrectAnswered(d) /\ decls[d].is_signed /\ decls[d].correction_of_id = NoId)
             => IF decls[d].has_been_corrected
                THEN resp'.outcome = "AlreadyCorrected" /\ decls' = decls
                ELSE resp'.outcome = "Success" /\ decls'[d].has_been_corrected]_vars

\* C6: the owner's correct() on a declaration whose correction_of_id is
\* set, draft or signed, is answered CannotCorrectACorrection and creates no
\* declaration.
C6_CannotCorrectACorrection ==
    [][\A d \in DOMAIN decls :
          (CorrectAnswered(d) /\ decls[d].correction_of_id # NoId)
             => resp'.outcome = "CannotCorrectACorrection" /\ decls' = decls]_vars

IsCorrectionType(dtype) == dtype \in DeclarationType \ {"inicial"}

\* C10: a declaration has a correction_of_id exactly when its
\* declaration_type is one of the correction types.
C10_CorrectionOfIdIffCorrection ==
    \A d \in DOMAIN decls :
        (decls[d].correction_of_id # NoId) <=> IsCorrectionType(decls[d].declaration_type)

\* A request that starts in this step and is answered in it.
AnsweredAtOnce ==
    /\ resp = NoResponse
    /\ resp' # NoResponse
    /\ sess' = sess

\* C7: no operation that starts once a declaration is signed changes the
\* child records or the stored totals of that declaration.
C7_SignedChildrenFrozen ==
    [][\A d \in DOMAIN decls :
          (decls[d].is_signed /\ AnsweredAtOnce) => children'[d] = children[d]]_vars

\* An update() request on d that is answered as soon as it starts.
UpdateAnsweredAtOnce(d) ==
    /\ resp = NoResponse
    /\ resp'.op = "update"
    /\ resp'.target = d
    /\ sess' = sess

\* An update() request on d that passes the guards in this step.
UpdateAdmitted(d) ==
    \E q \in BagToSet(sess') :
        /\ q.pc = "update_commit"
        /\ q.target = d
        /\ sess' = Start(q)

C11_SigningIrreversible ==
    [][\A d \in DOMAIN decls :
          decls[d].is_signed
             => /\ decls'[d].is_signed
                /\ decls'[d].status = decls[d].status
                /\ decls'[d].filing_number = decls[d].filing_number
                /\ decls'[d].signed_at = decls[d].signed_at
                /\ decls'[d].integrity_hash = decls[d].integrity_hash]_vars

RECURSIVE Zeros(_)
Zeros(n) == IF n <= 0 THEN "" ELSE "0" \o Zeros(n - 1)

\* The number v written with prefix and at least w digits.
Padded(prefix, v, w) == prefix \o Zeros(w - Len(Str(v))) \o Str(v)

\* The sign() requests answered with success in municipality m.
SuccessfulSigns(m) ==
    SumOver(signOk, {d \in DOMAIN decls : decls[d].municipality_id = m})

\* C12: in a configured municipality the counter equals its initial value
\* plus the number of successful signs, and the k-th successful sign is
\* given the initial value + k - 1.
C12_GaplessCounter ==
    \A m \in ConfiguredMunicipalities :
        /\ configs[m].radicado_actual = DefaultRadicadoActual + SuccessfulSigns(m)
        /\ (/\ resp.op = "sign"
            /\ resp.outcome = "Success"
            /\ decls[resp.target].municipality_id = m)
              => resp.filing = Padded(configs[m].radicado_prefijo,
                                      DefaultRadicadoActual + SuccessfulSigns(m) - 1,
                                      configs[m].radicado_digitos)

\* The sign() request q reads the counter in this step and becomes q2.
ReadsCounter(q, q2) ==
    /\ q.pc = "sign_counter"
    /\ q2.pc = "sign_siginfo"
    /\ sess' = Advance(q, q2)

\* The sign() request q commits in this step and is answered with success.
CommitsSign(q) ==
    /\ q.pc = "sign_commit"
    /\ resp = NoResponse
    /\ sess' = Finish(q)
    /\ resp'.op = "sign"
    /\ resp'.outcome = "Success"

\* C13: in a configured municipality sign() formats the counter value v it
\* reads as prefix + v padded with zeros to the configured digits; when it
\* succeeds it returns and stores that number and leaves the counter at
\* v + 1, the prefix, the digits and the other counters as they were.
C13_FormatAndAdvance ==
    [][\A q \in BagToSet(sess) :
          LET m == decls[q.target].municipality_id IN
          HasConfig(m) =>
            /\ \A q2 \in BagToSet(sess') :
                  ReadsCounter(q, q2)
                     => /\ q2.numero = configs[m].radicado_actual
                        /\ q2.filing = Padded(configs[m].radicado_prefijo, q2.numero,
                                              configs[m].radicado_digitos)
            /\ CommitsSign(q)
                  => /\ resp'.filing = q.filing
                     /\ decls'[q.target].filing_number = q.filing
                     /\ configs' = [configs EXCEPT ![m].radicado_actual = q.numero + 1]]_vars

\* The first sign() of municipality 2 has been answered with RAD-000001 and
\* the counter stands at 2.
C13_Witness ==
    /\ resp.op = "sign"
    /\ resp.outcome = "Success"
    /\ resp.filing = "RAD-000001"
    /\ configs[2].radicado_actual = 2

\* C14: in a municipality without configuration sign() succeeds at its
\* commit, the number it assigns is RAD-<declaration id>-<signing time>, and
\* no counter changes.
C14_FallbackNumber ==
    [][\A q \in BagToSet(sess) :
          (/\ q.pc = "sign_commit"
           /\ resp = NoResponse
           /\ sess' = Finish(q)
           /\ ~HasConfig(decls[q.target].municipality_id))
             => /\ resp'.outcome = "Success"
                /\ resp'.filing = "RAD-" \o Str(q.target) \o "-" \o Str(q.t)
                /\ decls'[q.target].filing_number = resp'.filing
                /\ decls'[q.target].is_signed
                /\ configs' = configs]_vars

\* A declaration of a municipality without configuration has been signed.
C14_Witness ==
    /\ resp.op = "sign"
    /\ resp.outcome = "Success"
    /\ ~HasConfig(decls[resp.target].municipality_id)
    /\ decls[resp.target].filing_number = resp.filing

\* A sign() request starts in this step and goes past the guards.
SignAdmitted(q) ==
    /\ q.op = "sign"
    /\ q.pc = "sign_counter"
    /\ sess' = Start(q)

\* C15: sign() on a draft by a caller who is not its owner is answered
\* Forbidden and changes neither the declarations, the counters, the
\* SignatureInfo rows nor the audit log; only the owner's request goes on.
C15_SignForbiddenForOthers ==
    [][/\ \A d \in DOMAIN decls :
             (/\ ~decls[d].is_signed
              /\ SignAnsweredAtOnce(d)
              /\ resp'.user # decls[d].user_id)
                => /\ resp'.outcome = "Forbidden"
                   /\ decls' = decls
                   /\ configs' = configs
                   /\ sigInfos' = sigInfos
                   /\ audit' = audit
       /\ \A q \in BagToSet(sess') :
             SignAdmitted(q) => q.user = decls[q.target].user_id]_vars

\* The municipal administrator, who does not own the draft, has been
\* answered Forbidden.
C15_Witness ==
    /\ resp.op = "sign"
    /\ resp.outcome = "Forbidden"
    /\ ~decls[resp.target].is_signed
    /\ UserRole(resp.user) = "admin_alcaldia"

\* The owner's correct() on o, a signed initial declaration that has not
\* been corrected, is answered in this step.
CorrectsOriginal(o) ==
    /\ CorrectAnswered(o)
    /\ decls[o].is_signed
    /\ decls[o].correction_of_id = NoId
    /\ ~decls[o].has_been_corrected

\* C16: correct() on an original o succeeds and adds exactly one
\* declaration: a draft of type correccion that refers to o, unsigned,
\* without filing_number and with a form_number no other declaration has;
\* it sets o.has_been_corrected and changes nothing else of o, of its child
\* records or of the other declarations.
C16_CorrectAddsOneDraft ==
    [][\A o \in DOMAIN decls :
          CorrectsOriginal(o)
             => /\ resp'.outcome = "Success"
                /\ DOMAIN decls' = DOMAIN decls \cup {NewId}
                /\ decls'[NewId].declaration_type = "correccion"
                /\ decls'[NewId].correction_of_id = o
                /\ decls'[NewId].status = "borrador"
                /\ ~decls'[NewId].is_signed
                /\ decls'[NewId].filing_number = NoString
                /\ \A e \in DOMAIN decls : decls[e].form_number # decls'[NewId].form_number
                /\ decls'[o] = [decls[o] EXCEPT !.has_been_corrected = TRUE]
                /\ children'[o] = children[o]
                /\ \A e \in DOMAIN decls \ {o} : decls'[e] = decls[e]]_vars

\* C17: after correct() on o the new declaration has a child record of
\* every kind o has, with the same values in every field.
C17_CorrectCopiesChildren ==
    [][\A o \in DOMAIN decls :
          CorrectsOriginal(o)
             => /\ resp'.outcome = "Success"
                /\ NewId \in DOMAIN children'
                /\ children'[NewId] = children[o]]_vars

\* c refers to another declaration as the one it corrects.
IsCorrectionOf(c, o) == c # o /\ decls[c].correction_of_id = o

ExclusiveResult(total_tax, total_credits, amount, favor) ==
    /\ amount >= 0
    /\ favor >= 0
    /\ ~(amount > 0 /\ favor > 0)
    /\ (total_tax = total_credits) => (amount = 0 /\ favor = 0)

\* C19: the amount due and the balance in favour that calculate() answers
\* with and stores are both >= 0, never both > 0, and both 0 when the total
\* tax equals the total credits; so are renglones 33 and 34 of the document
\* generate_pdf() renders, the tax being renglones 25, 30 and 31 and the
\* credits renglones 26, 27, 28, 29 and 32.
C19_NeverBothPayAndFavor ==
    /\ (resp.op = "calculate" /\ resp.outcome = "Success")
          => /\ ExclusiveResult(resp.data.row_33_total_tax, resp.data.total_credits,
                                resp.data.amount_to_pay, resp.data.balance_in_favor)
             /\ children[resp.target].result =
                   [amount_to_pay |-> resp.data.amount_to_pay,
                    balance_in_favor |-> resp.data.balance_in_favor]
    /\ (resp.op = "generate_pdf" /\ resp.outcome = "Success")
          => LET s == resp.data.settlement
             IN  /\ ExclusiveResult(s.row_25 + s.row_30 + s.row_31,
                                    s.row_26 + s.row_27 + s.row_28 + s.row_29 + s.row_32,
                                    s.row_33, s.row_34)
                 /\ resp.data.result = [amount_to_pay |-> s.row_33,
                                        balance_in_favor |-> s.row_34]

\* calculate() has answered with a tax equal to the credits, neither zero.
C19_Witness ==
    /\ resp.op = "calculate" /\ resp.outcome = "Success"
    /\ resp.data.row_33_total_tax = resp.data.total_credits
    /\ resp.data.total_credits > 0
    /\ resp.data.amount_to_pay = 0 /\ resp.data.balance_in_favor = 0

\* C20: with non-negative income fields, the taxable income is >= 0, and 0
\* when the deductions exceed the total income, in each of its derivations:
\* renglon 16 of calculate(), row_15_taxable_income of the income_base that
\* get() serializes, and renglon 15 of the document generate_pdf() renders.
C20_TaxableIncomeNonNegative ==
    /\ (resp.op = "calculate" /\ resp.outcome = "Success")
          => LET ib == children[resp.target].income_base
                 deductions == ib.row_11_returns + ib.row_12_exports
                               + ib.row_13_fixed_assets_sales + ib.row_14_excluded_income
                               + ib.row_15_non_taxable_income
             IN  /\ resp.data.row_16_taxable_income >= 0
                 /\ (deductions > resp.data.row_10_total_income)
                       => resp.data.row_16_taxable_income = 0
    /\ (resp.op = "get" /\ resp.outcome = "Success")
          => LET ib == resp.data.income_base
                 deductions == ib.row_11_returns_rebates_discounts
                               + ib.row_12_exports_fixed_assets
                               + ib.row_13_excluded_non_taxable + ib.row_14_exempt_income
             IN  /\ ib.row_15_taxable_income >= 0
                 /\ (deductions > ib.row_10_total_income_municipality)
                       => ib.row_15_taxable_income = 0
    /\ (resp.op = "generate_pdf" /\ resp.outcome = "Success")
          => LET ib == resp.data.income_base
             IN  /\ ib.row_15 >= 0
                 /\ (ib.row_11 + ib.row_12 + ib.row_13 + ib.row_14 > ib.row_10)
                       => ib.row_15 = 0

\* The update() request q commits in this step.
CommitsUpdate(q) ==
    /\ Running(q, "update_commit")
    /\ resp = NoResponse
    /\ resp'.op = "update" /\ resp'.outcome = "Success"
    /\ resp'.target = q.target
    /\ sess' = Finish(q)

\* income x rate / 1000, the rate being the special rate when one is given.
ExpectedActivityTax(activity) ==
    (activity.income * (IF activity.special_rate # NoRate
                        THEN activity.special_rate ELSE activity.tax_rate)) \div 1000

RECURSIVE ExpectedActivitiesTax(_)
ExpectedActivitiesTax(activities) ==
    IF activities = <<>> THEN 0
    ELSE ExpectedActivityTax(Head(activities)) + ExpectedActivitiesTax(Tail(activities))

\* C21: once update() has stored the activities a caller gave, the total
\* activities tax calculate() computes for the declaration is the sum over
\* those activities of income x rate / 1000, the rate being the special
\* rate when one was given (a special rate of 0 included) and the standard
\* rate otherwise.
C21_SpecialRateApplied ==
    [][\A q \in BagToSet(sess) :
          (CommitsUpdate(q) /\ "activities" \in q.payload.sections)
             => calculate_full_declaration(children'[q.target]).total_activities_tax
                   = ExpectedActivitiesTax(q.payload.activities)]_vars

\* calculate() on declaration resp.target has just been answered.
CalculateAnswered == resp.op = "calculate" /\ resp.outcome = "Success"

\* C22: the total-income row calculate() returns is the declaration's
\* income in the whole country less its income outside the municipality.
C22_TotalIncomeInMunicipality ==
    CalculateAnswered
       => LET ib == children[resp.target].income_base
          IN  resp.data.row_10_total_income =
                 ib.row_8_total_income_country - ib.row_9_income_outside_municipality

\* The net balance of the form: the total tax payable, less renglones 26 to
\* 29, plus renglones 30 and 31, less renglon 32.
NetBalance(total_ica_tax, s) ==
    (total_ica_tax + s.row_21_signs_boards + s.row_22_financial_additional_units
        + s.row_23_bomberil_surcharge + s.row_24_security_surcharge)
    - (s.row_26_exemptions + s.row_27_withholdings_municipality
        + s.row_28_self_withholdings + s.row_29_previous_advance)
    + (s.row_30_next_year_advance + s.row_31_penalties)
    - s.row_32_previous_balance_favor

\* C23: the amount due and the balance in favour calculate() returns and
\* stores split the net balance of the form: their difference is that
\* balance.
C23_ResultSplitsNetBalance ==
    CalculateAnswered
       => LET c == children[resp.target]
          IN  /\ resp.data.amount_to_pay - resp.data.balance_in_favor =
                    NetBalance(resp.data.total_activities_tax, c.settlement)
              /\ c.result.amount_to_pay - c.result.balance_in_favor =
                    NetBalance(resp.data.total_activities_tax, c.settlement)

\* The records calculate() reads: everything but the columns it writes.
RawInputs(c) ==
    [c EXCEPT !.settlement.row_30_ica_tax = 0,
              !.result = [amount_to_pay |-> 0, balance_in_favor |-> 0]]

\* C24: calculate() leaves the records it reads as they were, and the same
\* call on the state it leaves returns the same rows and stores the same
\* values: a declaration already calculated is left unchanged.
C24_CalculateIdempotent ==
    [][(resp = NoResponse /\ CalculateAnswered')
          => LET d == resp'.target
                 again == calculate_full_declaration(children'[d])
             IN  /\ RawInputs(children'[d]) = RawInputs(children[d])
                 /\ CalculationResponse(again) = resp'.data
                 /\ children'[d].settlement.row_30_ica_tax = again.row_30_ica_tax
                 /\ children'[d].result = [amount_to_pay |-> again.amount_to_pay,
                                           balance_in_favor |-> again.balance_in_favor]
                 /\ (children[d].settlement.row_30_ica_tax = resp'.data.total_activities_tax
                     /\ children[d].result.amount_to_pay = resp'.data.amount_to_pay
                     /\ children[d].result.balance_in_favor = resp'.data.balance_in_favor)
                       => children' = children
                 /\ UNCHANGED <<decls, configs, sigInfos, audit>>]_vars

\* calculate() has been answered with an amount to pay, and the declaration
\* holds the activities tax and the result the call returned.
C24_Witness ==
    /\ CalculateAnswered
    /\ resp.data.amount_to_pay > 0
    /\ resp.data.total_activities_tax > 0
    /\ children[resp.target].settlement.row_30_ica_tax = resp.data.total_activities_tax
    /\ children[resp.target].result.amount_to_pay = resp.data.amount_to_pay

\* C30: the amount to pay and the balance in favour calculate() stores in
\* the declaration's result are those generate_pdf() derives for the
\* declaration as calculate() leaves it.
C30_StoredResultMatchesPdf ==
    CalculateAnswered
       => children[resp.target].result = declaration_data(children[resp.target]).result

\* income x rate / 1000 with the activity's standard rate.
PerMilleTax(activity) == (activity.income * activity.tax_rate) \div 1000

RECURSIVE PerMilleTotal(_)
PerMilleTotal(activities) ==
    IF activities = <<>> THEN 0
    ELSE PerMilleTax(Head(activities)) + PerMilleTotal(Tail(activities))

\* C28: the tax of the stored activities is income x rate / 1000 in every
\* path: in the total calculate() returns, in the generated_tax of each
\* activity get() serializes, and in renglon 17 of the document
\* generate_pdf() renders.
C28_OneRateConvention ==
    /\ CalculateAnswered
          => resp.data.total_activities_tax = PerMilleTotal(children[resp.target].activities)
    /\ (resp.op = "get" /\ resp.outcome = "Success")
          => \A i \in 1..Len(resp.data.activities) :
                resp.data.activities[i].generated_tax =
                   PerMilleTax(children[resp.target].activities[i])
    /\ (resp.op = "generate_pdf" /\ resp.outcome = "Success")
          => resp.data.row_17 = PerMilleTotal(children[resp.target].activities)

\* The create() request q is answered with success in this step.
CreateAnswered(q) ==
    /\ Running(q, "create_children")
    /\ resp'.op = "create" /\ resp'.outcome = "Success"
    /\ resp'.target = q.target
    /\ sess' = Finish(q)

\* No create() is still under way for declaration d.
Created(d) == \A q \in BagToSet(sess) : ~(q.op = "create" /\ q.target = d)

\* C25: a successful create() leaves a draft, unsigned, without
\* filing_number, with the form_number it was given at once, and with one
\* empty child record of each of the seven kinds; an update() of a created
\* draft then stores every section it is given.
C25_CreateMakesEveryChild ==
    [][/\ \A q \in BagToSet(sess) :
             CreateAnswered(q)
                => /\ decls'[q.target].status = "borrador"
                   /\ ~decls'[q.target].is_signed
                   /\ decls'[q.target].filing_number = NoString
                   /\ decls'[q.target].form_number = generate_form_number(q.target)
                   /\ decls[q.target].form_number = decls'[q.target].form_number
                   /\ children'[q.target] = [EmptyChildren EXCEPT !.kinds = ChildKinds]
       /\ \A q \in BagToSet(sess) :
             (CommitsUpdate(q) /\ Created(q.target))
                => \A section \in q.payload.sections :
                      children'[q.target][section] = q.payload[section]]_vars

\* The signature_info rows of declaration d.
SignatureInfosOf(d) == {r \in sigInfos : r.declaration_id = d}

\* C26: a declaration has at most one signature_info row; a signed one has
\* exactly one, whose document_hash is the declaration's integrity_hash.
C26_OneSignatureInfo ==
    \A d \in DOMAIN decls :
        /\ Cardinality(SignatureInfosOf(d)) <= 1
        /\ decls[d].is_signed
              => /\ Cardinality(SignatureInfosOf(d)) = 1
                 /\ \A r \in SignatureInfosOf(d) :
                       r.document_hash = decls[d].integrity_hash

\* A create(), sign() or correct() is answered with a failure in this step.
LifecycleFailure ==
    /\ resp = NoResponse
    /\ resp'.op \in {"create", "sign", "correct"}
    /\ resp'.outcome # "Success"

\* The request q is answered with a failure in this step.
FailsNow(q) ==
    /\ BagIn(q, sess)
    /\ LifecycleFailure
    /\ resp'.op = q.op /\ resp'.target = q.target
    /\ sess' = Finish(q)

\* C27: a create(), sign() or correct() that fails writes nothing: the step
\* that answers the failure changes no persisted row, and a failed create()
\* leaves no declaration behind.
C27_AtomicOrRejected ==
    [][/\ LifecycleFailure => UNCHANGED <<decls, children, configs, sigInfos, audit>>
       /\ \A q \in BagToSet(sess) :
             (FailsNow(q) /\ q.op = "create") => q.target \notin DOMAIN decls']_vars

\* The owner's sign() request q on a draft reaches its commit in this step.
OwnerSignCommits(q) ==
    /\ Running(q, "sign_commit")
    /\ sess' = Finish(q)
    /\ resp'.op = "sign" /\ resp'.target = q.target
    /\ q.user = decls[q.target].user_id
    /\ ~decls[q.target].is_signed

\* C29: the owner's sign() on a draft succeeds and returns a filing number,
\* whatever other sign() requests run in the same municipality and whatever
\* numbers other municipalities have issued.
C29_OwnerSignSucceeds ==
    [][\A q \in BagToSet(sess) :
          OwnerSignCommits(q)
             => (resp'.outcome = "Success" /\ resp'.filing # NoString)]_vars
====
